---- MODULE Spec2Model ----
(***************************************************************************)
(* The user-claimable SSH gateway of mcqterm (src/mcqterm/ssh.py) and the  *)
(* session handler it is given (src/mcqterm/server.py).                    *)
(*                                                                         *)
(* One UserClaimableSSHServer object exists per connection.  The SSH       *)
(* engine (asyncssh) drives its callbacks: connection_made, begin_auth,    *)
(* password_auth_supported, validate_password, then one process_handler    *)
(* coroutine per session.  All coroutines run on one event loop, so a      *)
(* handler is atomic between two awaits; the awaits are the read of the    *)
(* claim command's input (ssh.py:114) and the session handler (ssh.py:150).*)
(*                                                                         *)
(* Text is modelled as sequences of characters.  A key character K1, K2    *)
(* stands for the text of one public key; NL is "\n".                      *)
(***************************************************************************)
EXTENDS Integers, Sequences, FiniteSets, TLC

VARIABLES
    user_claim_password,   \* self._user_claim_password          (ssh.py:50)
    authorized_keys_dir,   \* self._authorized_keys_dir          (ssh.py:51)
    external_address,      \* self._external_address             (ssh.py:49)
    fs,                    \* the files that exist, path -> content
    phase,                 \* per connection: where the engine is with it
    username,              \* per connection: extra info "username"
    client_keys,           \* per connection: self._conn._client_keys
    auth_key,              \* per connection: the key that authenticated it
    password_auth_used,    \* per connection: extra info "password_auth_used"
    proc,                  \* per connection: its process request in flight
    exited                 \* what the last step answered: the process request
                           \* it ended, the connection whose key offer it refused

vars == <<user_claim_password, authorized_keys_dir, external_address, fs, phase, username, client_keys, auth_key,
          password_auth_used, proc, exited>>

config == <<user_claim_password, authorized_keys_dir, external_address>>

-----------------------------------------------------------------------------
(* Bounds                                                                  *)

\* Longest input a client pipes into the claim command.
MaxPayloadLen == 2

\* The Key Store is not grown beyond this many characters in all.
MaxStoreLen == 4

-----------------------------------------------------------------------------
(* Values                                                                  *)

\* Two clients, each on its own connection, which it may close and open again.
Conns == {"c1", "c2"}

\* The private key each client holds, and so the public key it can offer.
HeldKey == [c \in Conns |-> IF c = "c1" THEN "K1" ELSE "K2"]

\* Python's None, where the other values are strings.
None == "<None>"

NL == "\n"
Keys == {"K1", "K2"}
Chars == Keys \cup {NL}

RECURSIVE SeqsUpTo(_, _)
SeqsUpTo(S, n) ==
    IF n = 0 THEN {<<>>}
    ELSE LET shorter == SeqsUpTo(S, n - 1)
         IN  shorter \cup {Append(s, x) : s \in {t \in shorter : Len(t) = n - 1}, x \in S}

Payloads == SeqsUpTo(Chars, MaxPayloadLen)

\* Usernames a client may claim: "a", "a/" and "b".
RawUsernames == {<<"a">>, <<"a", "/">>, <<"b">>}
NoUsername == <<>>

\* --user-claim-password: absent, empty, or a password.
ClaimPasswords == {None, "", "secret"}
\* Passwords a client may try.
CandidatePasswords == {"secret", "wrong"}

\* --authorized-keys-dir: the default, or another directory.
DefaultKeysDir == "authorized_keys"
KeysDirs == {DefaultKeysDir, "keys"}

\* --external-address: absent, or "h:p" (the characters h, ":" and p).
NoAddress == <<None>>
ExternalAddresses == {NoAddress, <<"h", ":", "p">>}

\* extra info "sockname", getsockname() of the connection's socket: (host, port)
\* on an IPv4 address, (host, port, flowinfo, scope_id) on an IPv6 address.
\* Only show_add_authorized_keys_help reads it, so it is drawn where it is read.
SockNameV4 == <<"127.0.0.1", "8022">>
SockNameV6 == <<"::1", "8022", "0", "0">>
SockNames == {SockNameV4, SockNameV6}

\* process.command: None for a shell request, else the command text, here a
\* sequence of pieces.  The two trigger phrases are pieces of their own.
CLAIM == "add-authorized-keys"
ECHO == "echo >> .ssh/authorized_keys"
NoCommand == <<None>>
Commands == {<<CLAIM>>, <<"sh -c '", ECHO, "'">>, <<"ls">>}

\* process.get_terminal_type(); the clients ask for a terminal with a shell
\* and for none with a command.
Terminals == {None, "xterm"}

\* What a handler may return, as [t |-> type, v |-> value]; v = 0 is the
\* falsy value of the type.
PyNone == [t |-> "NoneType", v |-> 0]
PyFalse == [t |-> "bool", v |-> 0]
PyTrue == [t |-> "bool", v |-> 1]
PyInt(n) == [t |-> "int", v |-> n]
PyStr == [t |-> "str", v |-> 1]
ReturnValues == {PyNone, PyTrue, PyInt(0), PyInt(2), PyStr}
\* The pseudo-value of a handler that raised an Exception.
PyRaised == [t |-> "raised", v |-> 1]
\* No handler has finished.
NoResult == [t |-> "none", v |-> 0]

\* No exit status has been sent.
NoStatus == -1

\* A process request: its command and terminal type, the input
\* read from it, what was written to its stdout, the exit status the client
\* is told and how many exit statuses were sent, how often the session handler
\* was called for it, what the handler gave back, and the status the handler
\* itself ended the process with, if it did.
NoProc == [command |-> NoCommand, term |-> None, stdin |-> <<>>, stdout |-> <<>>, exit_status |-> NoStatus,
           sent |-> 0, invoked |-> 0, result |-> NoResult, own_exit |-> NoStatus]

\* The last step ended no process request.
NoExit == [conn |-> None, proc |-> NoProc, key_offered |-> None]

-----------------------------------------------------------------------------
(* Helpers                                                                 *)

\* pathvalidate.sanitize_filename: drops the characters no file name may
\* hold; of the characters modelled, that is "/".
sanitize_filename(name) == SelectSeq(name, LAMBDA ch : ch # "/")

\* ssh.py:68, the file begin_auth points the engine at.
BeginAuthPath(name) == <<DefaultKeysDir, name>>

\* A Key Store of one file that every claim appends to.
KeyStoreEntry_OneFile(name) == <<authorized_keys_dir, <<"a">>>>

\* ssh.py:119, the file the claim command appends to.
KeyStoreEntry(name) == <<authorized_keys_dir, name>>

\* The keys of an authorized_keys file: a line that starts with a key grants
\* that key (what follows on the line is its comment); other lines grant none.
AuthorizedKeys(content) ==
    {content[i] : i \in {j \in DOMAIN content :
                            /\ content[j] \in Keys
                            /\ (j = 1 \/ content[j - 1] = NL)}}

\* conn.set_authorized_keys(path) as begin_auth uses it: the keys read, or the
\* connection's keys left as they were when the file is missing (OSError) or
\* holds no key (ValueError).
set_authorized_keys(c, path) ==
    IF path \notin DOMAIN fs THEN client_keys[c]
    ELSE IF AuthorizedKeys(fs[path]) = {} THEN client_keys[c]
    ELSE AuthorizedKeys(fs[path])

\* Python's bool() of a value.
Truthy(v) == v.v # 0

\* password_auth_supported without the look at the connection's keys.
password_auth_supported_IgnoresKeys(c) == user_claim_password \notin {None, ""}

\* ssh.py:73-74: bool(self._user_claim_password and not self._conn._client_keys).
\* _client_keys is the attribute set_authorized_keys assigns, None until then.
password_auth_supported(c) ==
    /\ user_claim_password \notin {None, ""}
    /\ client_keys[c] = {}

\* A password check that lets every candidate pass.
PasswordMatches_Any(password) == TRUE

\* ssh.py:77: result = password == self._user_claim_password
PasswordMatches(password) == password = user_claim_password

\* The engine accepts a public key that the keys loaded for the connection hold.
PublicKeyValid(c, k) == k \in client_keys[c]

Colons(addr) == Cardinality({i \in DOMAIN addr : addr[i] = ":"})

\* ssh.py:21-34: whether unpacking hostname, port raises ValueError.
HelpRaises(sock) ==
    IF external_address = NoAddress THEN Len(sock) # 2
    ELSE IF Colons(external_address) > 0 THEN Colons(external_address) + 1 # 2
    ELSE FALSE

WriteOut(p, text) == [p EXCEPT !.stdout = Append(@, text)]

\* A step of a handler: the process request after it, and whether it raised.
Ok(p) == [p |-> p, raised |-> FALSE]
Raise(p) == [p |-> p, raised |-> TRUE]

\* ssh.py:21-34
show_add_authorized_keys_help(p, sock) ==
    IF HelpRaises(sock) THEN Raise(p) ELSE Ok(WriteOut(p, "help"))

\* A process.exit whose every call sends its status, the last one overriding.
process_exit_LastWins(p, status) ==
    IF status.t \in {"int", "bool"} /\ status.v >= 0
    THEN [p |-> [p EXCEPT !.exit_status = status.v, !.sent = @ + 1], raised |-> FALSE]
    ELSE [p |-> p, raised |-> TRUE]

\* process.exit(status): the first call on a process sends the status, packed
\* as an unsigned 32-bit integer (a value that is no integer raises), and
\* closes the channel; a call on a closed channel does nothing.
process_exit(p, status) ==
    IF p.exit_status # NoStatus THEN Ok(p)
    ELSE IF status.t \in {"int", "bool"} /\ status.v >= 0
         THEN Ok([p EXCEPT !.exit_status = status.v, !.sent = @ + 1])
    ELSE Raise(p)

\* process.exit(status) called by the session handler (server.py:53).
HandlerExit(p, status) ==
    LET e == process_exit(p, status)
    IN  [e EXCEPT !.p.own_exit = IF e.raised THEN NoStatus ELSE e.p.exit_status]

\* process_handler without its except clause: nothing is sent for a handler
\* that raised.
CatchAll_NoExcept(r) == r.p

\* An except clause that reports success.
CatchAll_ExitZero(r) == IF r.raised THEN process_exit(r.p, PyInt(0)).p ELSE r.p

\* ssh.py:103-105: an Exception out of the handlers is logged and the process
\* exits with status 1.
CatchAll(r) == IF r.raised THEN process_exit(r.p, PyInt(1)).p ELSE r.p

\* The claim command adding a newline to every payload.
NormalizePayload_Always(stdin) == Append(stdin, NL)

\* ssh.py:115-116
NormalizePayload(stdin) ==
    IF Len(stdin) > 0 /\ stdin[Len(stdin)] = NL THEN stdin ELSE Append(stdin, NL)

\* An append that skips a payload the file already ends with.
AppendFile_Dedup(files, path, data) ==
    IF path \notin DOMAIN files THEN files @@ (path :> data)
    ELSE IF /\ Len(files[path]) >= Len(data)
            /\ SubSeq(files[path], Len(files[path]) - Len(data) + 1,
                      Len(files[path])) = data
         THEN files
    ELSE [files EXCEPT ![path] = @ \o data]

\* An append that lands in every file of the Key Store.
AppendFile_AllEntries(files, path, data) ==
    [q \in DOMAIN files \cup {path} |->
        IF q \in DOMAIN files THEN files[q] \o data ELSE data]

\* ssh.py:119-120: open(path, "a") and write.
AppendFile(files, path, data) ==
    IF path \in DOMAIN files THEN [files EXCEPT ![path] = @ \o data]
    ELSE files @@ (path :> data)

\* How far the file operations of a claim command get: all of them, or up to
\* an OSError out of mkdir (ssh.py:118), open (ssh.py:119) or write (ssh.py:120).
ClaimIO == {"ok", "mkdir", "open", "write"}

\* File operations that succeed with the last character of the payload left
\* unwritten.
WriteFile_Torn(files, path, data, io, written) ==
    AppendFile(files, path, SubSeq(data, 1, Len(data) - 1))

\* ssh.py:118-120: the Key Store after the file operations of a claim command.
\* open(path, "a") creates the file; a failed write leaves what it had written.
WriteFile(files, path, data, io, written) ==
    CASE io = "ok" -> AppendFile(files, path, data)
      [] io = "write" -> AppendFile(files, path, SubSeq(data, 1, written))
      [] OTHER -> files

\* The claim command recognised by equality with the control word.
IsClaimCommand_Exact(command) == command = <<CLAIM>>

\* ssh.py:109-112
IsClaimCommand(command) ==
    \E i \in DOMAIN command : command[i] \in {ECHO, CLAIM}

StoreLen(files) ==
    LET RECURSIVE Sum(_)
        Sum(S) == IF S = {} THEN 0
                  ELSE LET x == CHOOSE y \in S : TRUE
                       IN  Len(files[x]) + Sum(S \ {x})
    IN  Sum(DOMAIN files)

\* ssh.py:123-133: a command that is not the claim command.
UnsupportedCommand(p, c, sock) ==
    LET p1 == WriteOut(p, "unsupported")
    IN  IF ~password_auth_used[c] THEN process_exit(p1, PyInt(1))
        ELSE LET h == show_add_authorized_keys_help(WriteOut(p1, "blank"), sock)
             IN  IF h.raised THEN h ELSE process_exit(h.p, PyInt(1))

\* ssh.py:137-147: the two rejections of a shell request.
RejectShell(p, c, sock) ==
    IF password_auth_used[c]
    THEN LET h == show_add_authorized_keys_help(p, sock)
         IN  IF h.raised THEN h ELSE process_exit(h.p, PyInt(1))
    ELSE process_exit(WriteOut(p, "terminal"), PyInt(1))

\* The shell handler without its password check.
ShellAccepted_NoPasswordCheck(p, c) == p.term # None

\* The shell handler without its terminal check.
ShellAccepted_NoTerminalCheck(p, c) == ~password_auth_used[c]

\* ssh.py:137,142: a shell request goes to the session handler.
ShellAccepted(p, c) == ~password_auth_used[c] /\ p.term # None

\* process.exit(result), without the "or 0".
ExitWithResult_NoDefault(p, result) == process_exit(p, result)

\* ssh.py:153: process.exit(result or 0)
ExitWithResult(p, result) ==
    process_exit(p, IF Truthy(result) THEN result ELSE PyInt(0))

\* server.py:46-50: int(result), or bool(result) on TypeError; a string that
\* is no number raises ValueError, which is not caught there.
CastResult(result) ==
    CASE result.t \in {"int", "bool"} -> Ok(PyInt(result.v))
      [] result.t = "float" -> Ok(PyInt(result.v))
      [] result.t = "NoneType" -> Ok(PyFalse)
      [] OTHER -> Raise(result)

\* The statuses an injected session handler may end the process with itself.
HandlerExitStatuses == {PyInt(0), PyInt(2)}

\* What the injected session handler may raise: an Exception, or a
\* BaseException that is none (SystemExit, KeyboardInterrupt).
Raisables == {"Exception", "BaseException"}

\* run_mcq (mcq.py:193-200) returns None, or raises.
RunMcqOutcomes == {"return", "KeyboardInterrupt", "EOFError", "SystemExit",
                   "Exception"}

-----------------------------------------------------------------------------
(* Initial state: the server is constructed, nothing is connected, the     *)
(* Key Store is empty.                                                     *)

NoFiles == [path \in {} |-> <<>>]

Init ==
    /\ user_claim_password \in ClaimPasswords
    /\ authorized_keys_dir \in KeysDirs
    /\ external_address \in ExternalAddresses
    /\ fs = NoFiles
    /\ phase = [c \in Conns |-> "closed"]
    /\ username = [c \in Conns |-> NoUsername]
    /\ client_keys = [c \in Conns |-> {}]
    /\ auth_key = [c \in Conns |-> None]
    /\ password_auth_used = [c \in Conns |-> FALSE]
    /\ proc = [c \in Conns |-> NoProc]
    /\ exited = NoExit

-----------------------------------------------------------------------------------------------------------------------------------------------------
(* Actions                                                                 *)

\* The step ends the process request of c as p.
Exits(c, p) ==
    /\ exited' = [conn |-> c, proc |-> p, key_offered |-> None]
    /\ proc' = [proc EXCEPT ![c] = NoProc]
    /\ phase' = [phase EXCEPT ![c] = "open"]

\* The step leaves the process request of c in flight as p, at await `at`.
Awaits(c, p, at) ==
    /\ exited' = NoExit
    /\ proc' = [proc EXCEPT ![c] = p]
    /\ phase' = [phase EXCEPT ![c] = at]

\* ssh.py:54-61
connection_made(c) ==
    /\ phase[c] = "closed"
    /\ phase' = [phase EXCEPT ![c] = "connected"]
    /\ exited' = NoExit
    /\ UNCHANGED <<config, fs, username, client_keys, auth_key,
                   password_auth_used, proc>>

\* ssh.py:63-71.  The engine calls begin_auth for the username of the first
\* authentication request of a connection, and again for each request that
\* names another username while the connection is not yet authenticated.
begin_auth(c, name) ==
    /\ \/ phase[c] = "connected"
       \/ phase[c] = "auth" /\ name # username[c]
    /\ phase' = [phase EXCEPT ![c] = "auth"]
    /\ username' = [username EXCEPT ![c] = name]
    /\ client_keys' = [client_keys EXCEPT ![c] =
           set_authorized_keys(c, BeginAuthPath(sanitize_filename(name)))]
    /\ exited' = NoExit
    /\ UNCHANGED <<config, fs, auth_key, password_auth_used, proc>>

\* The engine's public-key check of a key the client offers.
validate_public_key(c) ==
    /\ phase[c] = "auth"
    /\ IF PublicKeyValid(c, HeldKey[c])
       THEN /\ phase' = [phase EXCEPT ![c] = "open"]
            /\ auth_key' = [auth_key EXCEPT ![c] = HeldKey[c]]
            /\ exited' = NoExit
       ELSE /\ exited' = [NoExit EXCEPT !.key_offered = c]
            /\ UNCHANGED <<phase, auth_key>>
    /\ UNCHANGED <<config, fs, username, client_keys, password_auth_used, proc>>

\* A validate_password whose flag is one attribute shared by the server
\* objects of all connections.
validate_password_SharedFlag(c, password) ==
    /\ phase[c] = "auth"
    /\ password_auth_supported(c)
    /\ IF PasswordMatches(password)
       THEN /\ password_auth_used' = [d \in Conns |-> TRUE]
            /\ phase' = [phase EXCEPT ![c] = "open"]
       ELSE UNCHANGED <<password_auth_used, phase>>
    /\ exited' = NoExit
    /\ UNCHANGED <<config, fs, username, client_keys, auth_key, proc>>

\* ssh.py:76-81; the engine asks for a password only where
\* password_auth_supported() said so.
validate_password(c, password) ==
    /\ phase[c] = "auth"
    /\ password_auth_supported(c)
    /\ IF PasswordMatches(password)
       THEN /\ password_auth_used' = [password_auth_used EXCEPT ![c] = TRUE]
            /\ phase' = [phase EXCEPT ![c] = "open"]
       ELSE UNCHANGED <<password_auth_used, phase>>
    /\ exited' = NoExit
    /\ UNCHANGED <<config, fs, username, client_keys, auth_key, proc>>

\* ssh.py:91-105 with 107-112, 123-133 and 135-147: a process request, up to
\* its exit or its first await.
process_handler(c, command, term, sock) ==
    /\ phase[c] = "open"
    /\ username' = [username EXCEPT ![c] = sanitize_filename(username[c])]
    /\ LET p == [NoProc EXCEPT !.command = command, !.term = term]
       IN  IF command = NoCommand
           THEN IF ShellAccepted(p, c)
                THEN Awaits(c, [p EXCEPT !.invoked = @ + 1], "running")
                ELSE Exits(c, CatchAll(RejectShell(p, c, sock)))
           ELSE IF IsClaimCommand(command)
                THEN Awaits(c, p, "reading")
                ELSE Exits(c, CatchAll(UnsupportedCommand(p, c, sock)))
    /\ UNCHANGED <<config, fs, client_keys, auth_key,
                   password_auth_used>>

\* ssh.py:114-121 with 103-105: the claim command once its input is read.
\* stdin is what read() returned: what the client had sent when it closed its
\* end of the input.  io says how far the file operations get; a write that
\* fails has put the first `written` characters of the payload in the file.
claim_input_read(c, stdin, io, written) ==
    /\ phase[c] = "reading"
    /\ StoreLen(fs) + Len(NormalizePayload(stdin)) <= MaxStoreLen
    /\ IF io = "write" THEN written < Len(NormalizePayload(stdin)) ELSE written = 0
    /\ fs' = WriteFile(fs, KeyStoreEntry(sanitize_filename(username[c])),
                       NormalizePayload(stdin), io, written)
    /\ LET p == [proc[c] EXCEPT !.stdin = stdin]
       IN  Exits(c, CatchAll(IF io = "ok" THEN process_exit(p, PyInt(0))
                             ELSE Raise(p)))
    /\ UNCHANGED <<config, username, client_keys, auth_key,
                   password_auth_used>>

\* ssh.py:150-153 with 103-105: the injected session handler returns.
handler_returns(c, result) ==
    /\ phase[c] = "running"
    /\ Exits(c, CatchAll(ExitWithResult([proc[c] EXCEPT !.result = result], result)))
    /\ UNCHANGED <<config, fs, username, client_keys, auth_key,
                   password_auth_used>>

\* ssh.py:150-153 with 103-105: the injected session handler ends the process
\* itself with process.exit(status), as run_mcq_in_ssh_process does
\* (server.py:53), and then returns.
handler_exits_and_returns(c, status, result) ==
    /\ phase[c] = "running"
    /\ LET h == HandlerExit([proc[c] EXCEPT !.result = result], status)
       IN  Exits(c, CatchAll(IF h.raised THEN h ELSE ExitWithResult(h.p, result)))
    /\ UNCHANGED <<config, fs, username, client_keys, auth_key,
                   password_auth_used>>

\* ssh.py:150 with 103-105: the injected session handler raises.  An Exception
\* is caught by process_handler.  A BaseException that is no Exception
\* (SystemExit, KeyboardInterrupt) passes "except Exception", leaves the
\* coroutine, and the event loop re-raises it: asyncio.run (server.py:99) ends
\* and the listener with it, no exit status sent.
handler_raises(c, kind) ==
    /\ phase[c] = "running"
    /\ IF kind = "Exception"
       THEN /\ Exits(c, CatchAll(Raise([proc[c] EXCEPT !.result = PyRaised])))
            /\ UNCHANGED <<username, client_keys, auth_key,
                           password_auth_used>>
       ELSE /\ phase' = [d \in Conns |-> "crashed"]
            /\ username' = [d \in Conns |-> NoUsername]
            /\ client_keys' = [d \in Conns |-> {}]
            /\ auth_key' = [d \in Conns |-> None]
            /\ password_auth_used' = [d \in Conns |-> FALSE]
            /\ proc' = [d \in Conns |-> NoProc]
            /\ exited' = NoExit
    /\ UNCHANGED <<config, fs>>

\* server.py:18-53 as the session handler: what it does to the process
\* request and what it hands back to ssh.py:150.
run_mcq_in_ssh_process(p, outcome) ==
    IF outcome = "return"
    THEN LET cast == CastResult(PyNone)
         IN  IF cast.raised THEN [p |-> p, raised |-> TRUE, result |-> PyRaised]
             ELSE LET e == HandlerExit(p, cast.p)
                  IN  [p |-> e.p, raised |-> e.raised,
                       result |-> IF e.raised THEN PyRaised ELSE PyNone]
    ELSE [p |-> p, raised |-> FALSE, result |-> PyInt(1)]

\* ssh.py:150-153 with the handler of server.py.
mcq_session_ends(c, outcome) ==
    /\ phase[c] = "running"
    /\ LET h == run_mcq_in_ssh_process(proc[c], outcome)
           p == [h.p EXCEPT !.result = h.result]
       IN  Exits(c, CatchAll(IF h.raised THEN Raise(p)
                             ELSE ExitWithResult(p, h.result)))
    /\ UNCHANGED <<config, fs, username, client_keys, auth_key,
                   password_auth_used>>

\* ssh.py:86-87: the connection is gone, and its server object with it.
connection_lost(c) ==
    /\ phase[c] \notin {"closed", "crashed"}
    /\ phase' = [phase EXCEPT ![c] = "closed"]
    /\ username' = [username EXCEPT ![c] = NoUsername]
    /\ client_keys' = [client_keys EXCEPT ![c] = {}]
    /\ auth_key' = [auth_key EXCEPT ![c] = None]
    /\ password_auth_used' = [password_auth_used EXCEPT ![c] = FALSE]
    /\ proc' = [proc EXCEPT ![c] = NoProc]
    /\ exited' = NoExit
    /\ UNCHANGED <<config, fs>>

\* The socket names that make a difference to a process request of c: the
\* name is read by show_add_authorized_keys_help only (ssh.py:26), which runs
\* on password-authenticated connections only (ssh.py:127, 137).
SockNamesRead(c) == IF password_auth_used[c] THEN SockNames ELSE {SockNameV4}

\* The engine has sent the client the answer of the last step.  No callback
\* and no handler reads `exited`, so taking the next step only once the answer
\* is sent leaves out no state of the program.
answer_sent ==
    /\ exited # NoExit
    /\ exited' = NoExit
    /\ UNCHANGED <<config, fs, phase, username, client_keys, auth_key,
                   password_auth_used, proc>>

\* What the engine and the clients can do with connection c, the file
\* operations of a claim command ending as one of ios.
Step(c, ios) ==
    /\ exited = NoExit
    /\ \/ connection_made(c)
       \/ \E name \in RawUsernames : begin_auth(c, name)
       \/ validate_public_key(c)
       \/ \E password \in CandidatePasswords : validate_password(c, password)
       \/ \E command \in Commands, sock \in SockNamesRead(c) :
              process_handler(c, command, None, sock)
       \/ \E term \in Terminals, sock \in SockNamesRead(c) :
              process_handler(c, NoCommand, term, sock)
       \/ \E stdin \in Payloads, io \in ios :
              \E written \in IF io = "write" THEN 0..MaxPayloadLen ELSE {0} :
                  claim_input_read(c, stdin, io, written)
       \/ \E result \in ReturnValues : handler_returns(c, result)
       \/ \E status \in HandlerExitStatuses, result \in ReturnValues :
              handler_exits_and_returns(c, status, result)
       \/ \E kind \in Raisables : handler_raises(c, kind)
       \/ \E outcome \in RunMcqOutcomes : mcq_session_ends(c, outcome)
       \/ connection_lost(c)

\* Two clients, on a file system whose operations succeed.
Next == (\E c \in Conns : Step(c, {"ok"})) \/ answer_sent

Spec == Init /\ [][Next]_vars

\* One client, on a file system whose operations may fail, with the claim
\* password set and the Key Store where begin_auth looks for it.
InitIO ==
    /\ Init
    /\ user_claim_password = "secret"
    /\ authorized_keys_dir = DefaultKeysDir
    /\ external_address = NoAddress

NextIO == Step("c1", ClaimIO) \/ answer_sent

SpecIO == InitIO /\ [][NextIO]_vars

-----------------------------------------------------------------------------
(* Properties                                                              *)

Identities == {sanitize_filename(name) : name \in RawUsernames}

\* The last step refused the public key the client of c offered.
key_offered(c) == exited.key_offered = c

\* The last step ended a process request.
Ended == exited.conn # None

\* The key of the first line of an entry that grants one: the claiming key.
ClaimingKey(content) ==
    content[CHOOSE i \in DOMAIN content :
                /\ content[i] \in Keys /\ (i = 1 \/ content[i - 1] = NL)
                /\ \A j \in 1..(i - 1) :
                       ~(content[j] \in Keys /\ (j = 1 \/ content[j - 1] = NL))]

\* What a step appended to a file.
Appended(path) ==
    IF path \in DOMAIN fs THEN SubSeq(fs'[path], Len(fs[path]) + 1, Len(fs'[path]))
    ELSE fs'[path]

\* What an entry holds; nothing when there is no file.
Content(files, path) == IF path \in DOMAIN files THEN files[path] ELSE <<>>

\* Every path of the Key Store, before or after a step.
Entries == {<<dir, name>> : dir \in KeysDirs, name \in Identities}

IsPrefix(s, t) == Len(s) <= Len(t) /\ s = SubSeq(t, 1, Len(s))

\* The step is the claim command of c completing.
ClaimStep(c) == phase[c] = "reading" /\ exited'.conn = c

\* C1: the session handler is invoked for a process request only on a
\* connection whose password_auth_used flag is not set (it authenticated by
\* public key), for a request without a command, with a terminal type.
C1_HandlerOnlyForKeyShell ==
    /\ \A c \in Conns :
          (phase[c] = "running" \/ proc[c].invoked > 0) =>
              /\ proc[c].invoked > 0
              /\ ~password_auth_used[c]
              /\ auth_key[c] # None
              /\ proc[c].command = NoCommand
              /\ proc[c].term # None
    /\ (Ended /\ exited.proc.invoked > 0) =>
              /\ ~password_auth_used[exited.conn]
              /\ auth_key[exited.conn] # None
              /\ exited.proc.command = NoCommand
              /\ exited.proc.term # None

C1_Witness == \E c \in Conns : phase[c] = "running" /\ proc[c].invoked = 1

\* C2: once a username's entry holds a claiming key, a connection of a client
\* that does not hold that key neither appends a key to the entry nor reaches
\* the session handler under that username.
C2_LockedToClaimingKey ==
    [][\A c \in Conns, name \in Identities :
          LET e == KeyStoreEntry(name)
          IN  (e \in DOMAIN fs /\ AuthorizedKeys(fs[e]) # {}
                  /\ HeldKey[c] # ClaimingKey(fs[e])) =>
                  /\ ~(ClaimStep(c) /\ fs'[e] # fs[e]
                          /\ AuthorizedKeys(Appended(e)) # {})
                  /\ ~(phase'[c] = "running" /\ username'[c] = name)]_vars

\* C3: a connection that begins authentication for a username has the keys of
\* that username's Key Store Entry, the file the claim command wrote, loaded
\* for its public-key check.
C3_BeginAuthReadsTheEntry ==
    [][\A c \in Conns :
          (phase[c] = "connected" /\ phase'[c] = "auth") =>
              LET e == KeyStoreEntry(sanitize_filename(username'[c]))
              IN  e \in DOMAIN fs => AuthorizedKeys(fs[e]) \subseteq client_keys'[c]]_vars

\* C4 as stated: on a connection whose client has offered a public key,
\* password_auth_supported returns false.
C4_NoPasswordOnceKeyOffered ==
    \A c \in Conns :
        (phase[c] = "auth" /\ key_offered(c)) => ~password_auth_supported(c)

\* C4 amended: on a connection for which begin_auth loaded a key of the claimed
\* username, password_auth_supported returns false, and the connection is not
\* password-authenticated, whatever the claim password and whatever the client
\* offered.
C4_NoPasswordOnceKeysLoaded ==
    \A c \in Conns :
        client_keys[c] # {} => ~password_auth_supported(c) /\ ~password_auth_used[c]

C4_Witness ==
    \E c \in Conns :
        /\ phase[c] = "auth" /\ client_keys[c] # {} /\ key_offered(c)
        /\ user_claim_password = "secret"

\* C5: on a connection that claims a username with no Key Store Entry, no
\* public key validates, and password authentication is offered if and only if
\* a non-empty claim password is configured.
C5_NoEntry ==
    \A c \in Conns :
        (phase[c] \notin {"closed", "connected"}
            /\ KeyStoreEntry(sanitize_filename(username[c])) \notin DOMAIN fs) =>
            /\ \A k \in Keys : ~PublicKeyValid(c, k)
            /\ auth_key[c] = None
            /\ password_auth_supported(c) <=> user_claim_password \notin {None, ""}

\* C6: a command that is not the claim command exits with status 1 after the
\* unsupported-command notice, with the claim instructions if and only if the
\* connection's password_auth_used flag is set, and without the session handler.
C6_UnsupportedCommand ==
    (Ended /\ exited.proc.command # NoCommand
           /\ ~IsClaimCommand(exited.proc.command)) =>
        /\ exited.proc.exit_status = 1
        /\ exited.proc.invoked = 0
        /\ exited.proc.stdout # <<>> /\ exited.proc.stdout[1] = "unsupported"
        /\ (\E i \in DOMAIN exited.proc.stdout : exited.proc.stdout[i] = "help")
               <=> password_auth_used[exited.conn]

\* C7 as stated: what the claim command appends ends with a single newline.
C7_SingleTrailingNewline ==
    [][\A c \in Conns :
          (ClaimStep(c) /\ exited'.proc.exit_status = 0) =>
              LET d == Appended(KeyStoreEntry(username[c]))
              IN  /\ d # <<>> /\ d[Len(d)] = NL
                  /\ Len(d) >= 2 => d[Len(d) - 1] # NL]_vars

\* C7 amended: a claim command that exits with status 0 has appended, to the
\* entry of the connection's username, its input unchanged when the input ends
\* with a newline and the input followed by one newline otherwise.
C7_NewlineAddedIfMissing ==
    [][\A c \in Conns :
          (ClaimStep(c) /\ exited'.proc.exit_status = 0) =>
              LET d == Appended(KeyStoreEntry(username[c]))
                  stdin == exited'.proc.stdin
              IN  /\ d # <<>> /\ d[Len(d)] = NL
                  /\ IF stdin # <<>> /\ stdin[Len(stdin)] = NL
                     THEN d = stdin
                     ELSE d = stdin \o <<NL>>]_vars

C7_Witness ==
    /\ Ended /\ IsClaimCommand(exited.proc.command)
    /\ exited.proc.exit_status = 0
    /\ exited.proc.stdin = <<"K1">>
    /\ LET e == KeyStoreEntry(username[exited.conn])
       IN  e \in DOMAIN fs /\ fs[e] = <<"K1", NL>>

\* C8: a shell request on a connection whose password_auth_used flag is set,
\* with a terminal or without, writes the claim instructions and exits with
\* status 1 without the session handler.
C8_PasswordShellRejected ==
    (Ended /\ exited.proc.command = NoCommand
           /\ password_auth_used[exited.conn]) =>
        /\ exited.proc.stdout = <<"help">>
        /\ exited.proc.exit_status = 1
        /\ exited.proc.invoked = 0

\* C9: a shell request without a terminal type on a public-key-authenticated
\* connection writes the use-a-terminal notice and exits with status 1 without
\* the session handler.
C9_NoTerminalRejected ==
    (Ended /\ exited.proc.command = NoCommand
           /\ ~password_auth_used[exited.conn]
           /\ exited.proc.term = None) =>
        /\ exited.proc.stdout = <<"terminal">>
        /\ exited.proc.exit_status = 1
        /\ exited.proc.invoked = 0

C9_Witness ==
    /\ Ended /\ exited.proc.command = NoCommand
    /\ auth_key[exited.conn] # None
    /\ exited.proc.term = None
    /\ exited.proc.exit_status = 1

\* C10 as stated: a shell request with a terminal on a public-key-authenticated
\* connection calls the session handler exactly once, and its exit status
\* follows what the handler gave back: 0 for 0, 1 for True, 1 for any other
\* truthy value that is no integer, 0 for a falsy value, 1 when it raised.
C10_ExitStatusFromHandler ==
    /\ \A c \in Conns : phase[c] = "running" => proc[c].invoked = 1
    /\ (Ended /\ exited.proc.command = NoCommand
              /\ ~password_auth_used[exited.conn]
              /\ exited.proc.term # None) =>
           LET r == exited.proc.result
               status == exited.proc.exit_status
           IN  /\ exited.proc.invoked = 1
               /\ r # NoResult
               /\ r = PyInt(0) => status = 0
               /\ r = PyTrue => status = 1
               /\ (Truthy(r) /\ r.t \notin {"int", "bool"}) => status = 1
               /\ ~Truthy(r) => status = 0
               /\ r = PyRaised => status = 1

\* C10 amended: a shell request with a terminal on a public-key-authenticated
\* connection calls the session handler exactly once.  When the handler has
\* not ended the process itself, the exit status follows what it gave back:
\* 0 for 0, 1 for True, 1 for any other truthy value that is no integer, 0 for
\* a falsy value, 1 when it raised.  When the handler has ended the process
\* itself, the exit status is the one the handler issued, whatever it returns.
C10_ExitStatusFromHandlerReturn ==
    /\ \A c \in Conns : phase[c] = "running" => proc[c].invoked = 1
    /\ (Ended /\ exited.proc.command = NoCommand
              /\ ~password_auth_used[exited.conn]
              /\ exited.proc.term # None) =>
           LET r == exited.proc.result
               status == exited.proc.exit_status
           IN  /\ exited.proc.invoked = 1
               /\ r # NoResult
               /\ exited.proc.own_exit = NoStatus =>
                      /\ r = PyInt(0) => status = 0
                      /\ r = PyTrue => status = 1
                      /\ (Truthy(r) /\ r.t \notin {"int", "bool"}) => status = 1
                      /\ ~Truthy(r) => status = 0
                      /\ r = PyRaised => status = 1
               /\ exited.proc.own_exit # NoStatus => status = exited.proc.own_exit

C10_Witness ==
    /\ Ended /\ exited.proc.invoked = 1
    /\ exited.proc.result = PyTrue
    /\ exited.proc.own_exit = NoStatus
    /\ exited.proc.exit_status = 1

\* C11 as stated: every process request that completes exits with status 0
\* or 1.
C11_ExitStatusZeroOrOne ==
    Ended => exited.proc.exit_status \in {0, 1}

\* C11 amended: a process request that completes has sent a status: 1 for
\* every rejection (unsupported command, shell on a password-authenticated
\* connection, shell without terminal, session handler that raised an
\* Exception), 0 only for a claim command or a session handler that returned,
\* and a status other than 0 and 1 only as the integer the session handler
\* returned or ended the process with itself.
C11_ExitStatusOrHandlerInteger ==
    Ended =>
        LET p == exited.proc
            c == exited.conn
        IN  /\ p.exit_status >= 0
            /\ (p.command # NoCommand /\ ~IsClaimCommand(p.command)) => p.exit_status = 1
            /\ (p.command = NoCommand /\ password_auth_used[c]) => p.exit_status = 1
            /\ (p.command = NoCommand /\ p.term = None) => p.exit_status = 1
            /\ p.result = PyRaised => p.exit_status = 1
            /\ p.exit_status = 0 =>
                   \/ IsClaimCommand(p.command)
                   \/ p.invoked = 1 /\ p.result \notin {PyRaised, NoResult}
            /\ p.exit_status \notin {0, 1} =>
                   /\ p.invoked = 1
                   /\ \/ p.own_exit = p.exit_status
                      \/ /\ p.own_exit = NoStatus
                         /\ p.result.t = "int" /\ p.result.v = p.exit_status

C11_Witness ==
    /\ Ended /\ exited.proc.invoked = 1
    /\ exited.proc.own_exit = NoStatus
    /\ exited.proc.result = PyInt(2)
    /\ exited.proc.exit_status = 2

\* C12: entries are append-only: in every step the content of each entry is a
\* prefix of its content after the step, and the content of an entry changes
\* only in a step in which a claim command exits with status 0.
C12_AppendOnly ==
    [][\A e \in Entries :
          /\ e \in DOMAIN fs => e \in DOMAIN fs'
          /\ IsPrefix(Content(fs, e), Content(fs', e))
          /\ Content(fs', e) # Content(fs, e) =>
                 \E c \in Conns : ClaimStep(c) /\ exited'.proc.exit_status = 0]_vars

\* One of the two control phrases occurs somewhere in the command string.
HoldsControlPhrase(command) ==
    \E i \in DOMAIN command : command[i] = CLAIM \/ command[i] = ECHO

\* C13 as stated: a command appends to the Key Store and exits with status 0
\* if and only if it is the control command; a longer command that holds the
\* control phrase leaves every entry unchanged and exits with status 1.
C13_OnlyTheControlCommandClaims ==
    [][\A c \in Conns :
          (exited'.conn = c /\ exited'.proc.command # NoCommand) =>
              IF exited'.proc.command \in {<<CLAIM>>, <<ECHO>>}
              THEN exited'.proc.exit_status = 0 /\ fs' # fs
              ELSE exited'.proc.exit_status = 1 /\ fs' = fs]_vars

\* C13 amended: a command whose string holds a control phrase anywhere, and
\* only such a command, appends to the entry of its connection's username and
\* exits with status 0; a command that holds none leaves every entry unchanged
\* and exits with status 1.
C13_CommandHoldingPhraseClaims ==
    [][\A c \in Conns :
          (exited'.conn = c /\ exited'.proc.command # NoCommand) =>
              LET e == KeyStoreEntry(username[c])
              IN  IF HoldsControlPhrase(exited'.proc.command)
                  THEN /\ exited'.proc.exit_status = 0
                       /\ Content(fs', e) # Content(fs, e)
                       /\ \A o \in Entries \ {e} : Content(fs', o) = Content(fs, o)
                  ELSE exited'.proc.exit_status = 1 /\ fs' = fs]_vars

C13_Witness ==
    /\ Ended /\ exited.proc.command = <<"sh -c '", ECHO, "'">>
    /\ exited.proc.exit_status = 0
    /\ Content(fs, KeyStoreEntry(username[exited.conn])) # <<>>

IsSuffix(s, t) ==
    Len(s) <= Len(t) /\ s = SubSeq(t, Len(t) - Len(s) + 1, Len(t))

\* C14: claiming never deduplicates: a claim command that exits with status 0
\* leaves the entry as its earlier content followed by the normalized payload,
\* also when the entry already ends with that payload, which it then holds
\* twice in a row.
C14_NoDeduplication ==
    [][\A c \in Conns :
          (ClaimStep(c) /\ exited'.proc.exit_status = 0) =>
              LET e == KeyStoreEntry(username[c])
                  data == NormalizePayload(exited'.proc.stdin)
              IN  /\ Content(fs', e) = Content(fs, e) \o data
                  /\ IsSuffix(data, Content(fs, e)) =>
                         IsSuffix(data \o data, Content(fs', e))]_vars

C14_Witness ==
    /\ Ended /\ IsClaimCommand(exited.proc.command)
    /\ exited.proc.exit_status = 0
    /\ exited.proc.stdin = <<"K2">>
    /\ Content(fs, KeyStoreEntry(username[exited.conn])) = <<"K2", NL, "K2", NL>>

\* C15: while the claim commands of two connections for two different
\* identities are both reading their input, either can complete without the
\* other: the one that completes exits with status 0 and has appended its
\* normalized payload, whole, to the entry of its own identity; the entry of
\* the other identity and the other claim command are as they were.
C15_ConcurrentClaimsApart ==
    [][\A c, d \in Conns :
          (/\ c # d /\ phase[c] = "reading" /\ phase[d] = "reading"
           /\ username[c] # username[d]) =>
              /\ StoreLen(fs) < MaxStoreLen =>
                     ENABLED claim_input_read(c, <<>>, "ok", 0)
              /\ ClaimStep(c) =>
                     LET mine == <<authorized_keys_dir, username[c]>>
                         other == <<authorized_keys_dir, username[d]>>
                     IN  /\ exited'.proc.exit_status = 0
                         /\ Content(fs', mine) = Content(fs, mine)
                                \o NormalizePayload(exited'.proc.stdin)
                         /\ Content(fs', other) = Content(fs, other)
                         /\ phase'[d] = "reading" /\ proc'[d] = proc[d]]_vars

C15_Witness ==
    \E c, d \in Conns :
        /\ c # d /\ exited.conn = c /\ IsClaimCommand(exited.proc.command)
        /\ exited.proc.exit_status = 0 /\ exited.proc.stdin = <<HeldKey[c]>>
        /\ phase[d] = "reading" /\ username[c] # username[d]
        /\ Content(fs, <<authorized_keys_dir, username[c]>>) = <<HeldKey[c], NL>>

C17_BeginAuthFailureLoadsNoKeys ==
    [][\A c \in Conns, name \in RawUsernames :
          /\ phase[c] = "connected" => ENABLED begin_auth(c, name)
          /\ begin_auth(c, name) =>
                 LET path == BeginAuthPath(sanitize_filename(name))
                 IN  /\ phase'[c] = "auth"
                     /\ (path \notin DOMAIN fs \/ AuthorizedKeys(fs[path]) = {}) =>
                            client_keys'[c] = {}]_vars

\* The step leaves every connection other than c, and its process request, as
\* they were.
OthersUntouched(c) ==
    \A d \in Conns \ {c} :
        /\ phase'[d] = phase[d] /\ proc'[d] = proc[d]
        /\ username'[d] = username[d] /\ client_keys'[d] = client_keys[d]
        /\ auth_key'[d] = auth_key[d]
        /\ password_auth_used'[d] = password_auth_used[d]

\* C18: validate_password returns true, which authenticates the connection,
\* if and only if the candidate equals the configured claim password; the
\* password_auth_used flag of the connection becomes true exactly then and is
\* otherwise as it was; no Key Store Entry changes either way.
C18_ValidatePassword ==
    [][\A c \in Conns, password \in CandidatePasswords :
          validate_password(c, password) =>
              /\ phase'[c] = "open" <=> password = user_claim_password
              /\ password = user_claim_password => password_auth_used'[c]
              /\ password # user_claim_password =>
                     password_auth_used'[c] = password_auth_used[c]
              /\ \A d \in Conns \ {c} :
                     password_auth_used'[d] = password_auth_used[d]
              /\ fs' = fs]_vars

C18_Witness ==
    \E c \in Conns :
        /\ phase[c] = "open" /\ password_auth_used[c] /\ auth_key[c] = None
        /\ user_claim_password \in CandidatePasswords
        /\ fs = NoFiles

\* C19: a session handler that raises is contained: its process request exits
\* with status 1, its connection stays open, the listener goes on, and every
\* other connection and its process request are as they were.
C19_HandlerFaultContained ==
    [][\A c \in Conns, kind \in Raisables :
          handler_raises(c, kind) =>
              /\ exited'.conn = c /\ exited'.proc.exit_status = 1
              /\ phase'[c] = "open"
              /\ OthersUntouched(c)
              /\ fs' = fs]_vars

\* C20: a claim command whose file operations fail (mkdir, open or write
\* raises OSError) exits with status 1, never 0; its connection stays open and
\* as authenticated as it was; no entry of another identity changes, and its
\* own entry loses nothing.
C20_ClaimIOFailureNotFatal ==
    [][\A c \in Conns, io \in ClaimIO \ {"ok"}, written \in 0..MaxPayloadLen :
          (ClaimStep(c) /\ claim_input_read(c, exited'.proc.stdin, io, written)) =>
              LET mine == KeyStoreEntry(username[c])
              IN  /\ exited'.conn = c /\ exited'.proc.exit_status = 1
                  /\ phase'[c] = "open"
                  /\ password_auth_used'[c] = password_auth_used[c]
                  /\ auth_key'[c] = auth_key[c]
                  /\ OthersUntouched(c)
                  /\ \A o \in Entries \ {mine} : Content(fs', o) = Content(fs, o)
                  /\ IsPrefix(Content(fs, mine), Content(fs', mine))]_vars

C20_Witness ==
    /\ Ended /\ IsClaimCommand(exited.proc.command)
    /\ exited.proc.exit_status = 1
    /\ phase[exited.conn] = "open"
    /\ \E o \in Entries \ {KeyStoreEntry(username[exited.conn])} :
           Content(fs, o) = <<"K1", NL>>

\* C21: sanitization is applied consistently.  Sanitizing a sanitized name
\* gives the name back; the name begin_auth sanitizes, the name process_handler
\* stores and the name the claim command sanitizes denote one Key Store Entry,
\* the one begin_auth loads the keys of and the claim command appends to; two
\* connections whose raw usernames sanitize to the same string share it.
C21_SanitizedConsistently ==
    [][\A c \in Conns :
          /\ \A name \in RawUsernames :
                 begin_auth(c, name) =>
                     LET e == KeyStoreEntry(sanitize_filename(sanitize_filename(name)))
                     IN  (e \in DOMAIN fs /\ AuthorizedKeys(fs[e]) # {}) =>
                             client_keys'[c] = AuthorizedKeys(fs[e])
          /\ (phase[c] = "open" /\ (phase'[c] \in {"reading", "running"} \/ exited'.conn = c)) =>
                 /\ username'[c] = sanitize_filename(username[c])
                 /\ sanitize_filename(username'[c]) = username'[c]
          /\ (ClaimStep(c) /\ exited'.proc.exit_status = 0) =>
                 \A name \in RawUsernames :
                     sanitize_filename(name) = sanitize_filename(username[c]) =>
                         LET e == KeyStoreEntry(sanitize_filename(name))
                         IN  /\ Content(fs', e) = Content(fs, e)
                                    \o NormalizePayload(exited'.proc.stdin)
                             /\ Content(fs', BeginAuthPath(sanitize_filename(name)))
                                    = Content(fs', e)]_vars

\* C22: a claim command on a connection authenticated for identity u, from
\* its start to its exit, changes only the Key Store Entry of u: the entry of
\* every other identity holds what it held, no file is created outside the
\* entry of u, and the password_auth_used flag of every connection is as it
\* was.
C22_ClaimChangesOnlyOwnEntry ==
    [][\A c \in Conns :
          (ClaimStep(c) \/ (phase[c] = "open" /\ phase'[c] = "reading")) =>
              LET u == <<authorized_keys_dir, sanitize_filename(username[c])>>
              IN  /\ \A o \in DOMAIN fs \cup DOMAIN fs' :
                         o # u => /\ o \in DOMAIN fs /\ o \in DOMAIN fs'
                                  /\ fs'[o] = fs[o]
                  /\ password_auth_used' = password_auth_used]_vars

C22_Witness ==
    \E c, d \in Conns :
        /\ c # d /\ exited.conn = c /\ IsClaimCommand(exited.proc.command)
        /\ exited.proc.exit_status = 0 /\ exited.proc.stdin = <<"K1">>
        /\ password_auth_used[c] /\ password_auth_used[d]
        /\ username[d] # username[c]
        /\ Content(fs, <<authorized_keys_dir, username[c]>>) = <<"K1", NL>>
        /\ Content(fs, <<authorized_keys_dir, username[d]>>) = <<"K2", NL>>

\* C23: the password_auth_used flag is per connection and monotone.  It
\* becomes true only in a validate_password of its own connection with the
\* configured claim password, the step that authenticates the connection; a
\* connection that authenticated by public key never has it; once true it
\* stays true until the connection is gone, through every process request; and
\* no step of another connection's authentication changes it.
C23_FlagPerConnectionMonotone ==
    [][\A c \in Conns :
          /\ (~password_auth_used[c] /\ password_auth_used'[c]) =>
                 /\ validate_password(c, user_claim_password)
                 /\ user_claim_password \in CandidatePasswords
                 /\ phase[c] = "auth" /\ phase'[c] = "open"
                 /\ auth_key'[c] = None
          /\ (auth_key[c] # None \/ auth_key'[c] # None) =>
                 ~password_auth_used[c] /\ ~password_auth_used'[c]
          /\ (password_auth_used[c] /\ ~password_auth_used'[c]) =>
                 phase'[c] \in {"closed", "crashed"}
          /\ (password_auth_used[c] /\ phase[c] \in {"open", "reading", "running"}
                 /\ phase'[c] \in {"open", "reading", "running"}) =>
                 password_auth_used'[c]
          /\ (\/ \E name \in RawUsernames : begin_auth(c, name)
              \/ validate_public_key(c)
              \/ \E password \in CandidatePasswords : validate_password(c, password)) =>
                 \A d \in Conns \ {c} :
                     password_auth_used'[d] = password_auth_used[d]]_vars

C23_Witness ==
    \E c, d \in Conns :
        /\ c # d /\ exited.conn = c /\ exited.proc.command = <<"ls">>
        /\ password_auth_used[c] /\ phase[c] = "open"
        /\ Content(fs, KeyStoreEntry(username[c])) # <<>>
        /\ auth_key[d] # None /\ ~password_auth_used[d] /\ phase[d] = "running"

\* C24: when the session handler ends the process itself with
\* process.exit(status) and then returns, the router's own process.exit, made
\* with the handler's return value or 0, does not replace that status: the
\* status the client is told is the one the handler issued.  Every process
\* request that ends has sent exactly one exit status.
C24_FirstExitStatusStands ==
    /\ Ended => exited.proc.sent = 1 /\ exited.proc.exit_status # NoStatus
    /\ (Ended /\ exited.proc.own_exit # NoStatus) =>
           /\ exited.proc.exit_status = exited.proc.own_exit
           /\ exited.proc.invoked = 1
    /\ \A c \in Conns : proc[c].sent = 0 /\ proc[c].exit_status = NoStatus

C24_Witness ==
    /\ Ended /\ exited.proc.own_exit = 2
    /\ exited.proc.result = PyNone
    /\ exited.proc.exit_status = 2 /\ exited.proc.sent = 1

====
